---- MODULE Spec2Model ----
(***************************************************************************)
(* Delivery pipeline of reliable-mail: the submission gateway              *)
(* (src/routes/emails.ts), the BullMQ job queue configured by enqueueEmail *)
(* and the worker processor of src/workers/emailWorker.ts (atomic claim,   *)
(* provider send, success commit, failure bookkeeping, notification),      *)
(* over the emails and email_usage tables of src/db/schema.sql.            *)
(***************************************************************************)
EXTENDS Integers, Sequences, FiniteSets, TLC

(* ---- bounds of the model ---- *)
MaxEmails == 2
NWorkers == 2
NAccounts == 1
NKeys == 1
MaxFaults == 2
MonthlyLimit == 1
RateLimit == 2
NHandlers == 2
TickSeconds == 30
MaxClock == 3

(* ---- program constants ---- *)
MAX_ATTEMPTS == 5
QUEUE_ATTEMPTS == 5

WebhookDelaysFourRetries == <<1000, 2000, 4000, 8000>>

WEBHOOK_RETRY_DELAYS_MS == <<1000, 2000, 4000>>

Workers == 1..NWorkers
Accounts == 1..NAccounts
Keys == 1..NKeys
Handlers == 1..NHandlers

NULL == "NULL"
ErrProvider == "ProviderError"
ErrNoId == "No message ID returned from Resend"
ErrCommit == "CommitError"
ErrStore == "StoreError"
ErrNoEmailId == "No emailId in job data"

VARIABLES
  emails,      \* table emails: sequence indexed by the SERIAL id
  email_usage, \* table email_usage: sequence indexed by the BIGSERIAL id
  queue,       \* BullMQ job of each email id: state, attemptsMade, lock holder,
               \* and the delays (ms) of the retries scheduled so far
  pc,          \* position of each worker in the processor
  job,         \* job.data.emailId of the worker's current job
  email,       \* the row returned by the claim (claimResult.rows[0])
  messageId,   \* response.data.id of the worker's provider call
  err,         \* err.message caught by the worker
  hist,        \* history of each email id, see NewHist
  webhook,     \* trace of the worker's notifyWebhook call, see NoWebhook
  responses,   \* the responses of POST /emails/send that carried an id
  reads,       \* the last request to GET /emails/:id and its response
  limiter,     \* the rate limiter: its Redis counters and its request handlers
  faults       \* number of injected crashes, stalls and store faults so far

vars == <<emails, email_usage, queue, pc, job, email, messageId, err,
          hist, webhook, responses, reads, limiter, faults>>

Ids == 1..Len(emails)

(* a job.data.emailId for which the emails table never holds a row *)
NoSuchId == MaxEmails + 1

NoEmail == [attempts |-> 0, account_id |-> 0]

(* to_email, from_email, subject, html and text of a request: the pipeline *)
(* hands them to the provider and never computes with them, so one value   *)
(* stands for them                                                         *)
RequestContent == "to, from, subject, html, text"

(* schema.sql: emails row as inserted by the gateway (column defaults) *)
NewEmail(a, k) ==
  [account_id |-> a, idempotency_key |-> k, content |-> RequestContent,
   status |-> "pending", attempts |-> 0, last_error |-> NULL,
   provider_message_id |-> 0, sent_at |-> 0]

(* history kept per email id, read by the properties only:                *)
(*   accepted  sends for which the provider returned a message id          *)
(*   sends     calls of resend.emails.send, whatever their outcome         *)
(*   enqueues  calls of emailQueue.add for the id that succeeded           *)
(*   sentEvents, failedEvents  calls of notifyWebhook with email.sent and  *)
(*             with email.failed (one call re-posts its event on retry)    *)
(*   claims    claims that returned the row                                *)
(*   failures  claimed attempts whose failure bookkeeping was written      *)
(*   lastErr   message written by the latest failure bookkeeping           *)
(*   holder    worker between its claim and its own write of the outcome   *)
(*             (0: nobody, -1: a worker that died holding the claim)       *)
NewHist ==
  [accepted |-> 0, claims |-> 0, failures |-> 0, lastErr |-> NULL, holder |-> 0,
   sends |-> 0, sentEvents |-> 0, failedEvents |-> 0, enqueues |-> 0]

(* trace of one notifyWebhook call, read by the properties only:          *)
(*   lookup  "no": not called, "error": the SELECT webhook_url rejected,   *)
(*           "none": the account has no webhook_url, "url": it has one     *)
(*   posts   for each postWebhook call, whether it returned normally       *)
(*   slept   the delays slept between the calls, in ms                     *)
(*   threw   notifyWebhook ended by throwing                               *)
(*   event, data   the payload the call was given (the fields the          *)
(*           properties read; a field the event does not carry is 0/NULL)  *)
NoData ==
  [email_id |-> 0, account_id |-> 0, status |-> NULL, attempts |-> 0,
   last_error |-> NULL, provider_message_id |-> 0]

NoWebhook ==
  [lookup |-> "no", posts |-> << >>, slept |-> << >>, threw |-> FALSE,
   event |-> NULL, data |-> NoData]

(* redis.expire(key, 60) *)
RATE_WINDOW_SECONDS == 60

(* a Redis key without expiry *)
NoTTL == -1

(* a rate limiter request handler that is not running; answer is what the *)
(* last request it ran was answered: "pass" (next() after the test),      *)
(* "failopen" (next() from the catch block), "429" or "none"              *)
IdleHandler ==
  [pc |-> "idle", account |-> 0, current |-> 0, stale |-> FALSE, answer |-> "none"]

(* no key ratelimit:<account> exists; count 0 stands for an absent key.   *)
(*   ttl     seconds the key has left, NoTTL when it has no expiry         *)
(*   passed  requests counted in the key's present lifetime that went on   *)
(*           to the route (read by the properties only)                    *)
(*   clock   ticks of TickSeconds elapsed                                  *)
NoLimiter ==
  [count |-> [a \in Accounts |-> 0],
   ttl |-> [a \in Accounts |-> NoTTL],
   passed |-> [a \in Accounts |-> 0],
   clock |-> 0,
   h |-> [p \in Handlers |-> IdleHandler]]

(* no request to GET /emails/:id has been made *)
NoRead == [account |-> 0, id |-> 0, response |-> [code |-> 0]]

NewJob(ok) ==
  [state |-> IF ok THEN "wait" ELSE "none", attemptsMade |-> 0, lock |-> 0,
   delays |-> << >>]

Init ==
  /\ emails = << >>
  /\ email_usage = << >>
  /\ queue = << >>
  /\ pc = [w \in Workers |-> "idle"]
  /\ job = [w \in Workers |-> 0]
  /\ email = [w \in Workers |-> NoEmail]
  /\ messageId = [w \in Workers |-> 0]
  /\ err = [w \in Workers |-> NULL]
  /\ hist = << >>
  /\ webhook = [w \in Workers |-> NoWebhook]
  /\ responses = {}
  /\ reads = NoRead
  /\ limiter = NoLimiter
  /\ faults = 0

(* ---- helpers ---- *)
ClaimableAnyUnfinished(st) == st \in {"pending", "retrying", "processing"}

ClaimableWhatever(st) == TRUE

(* WHERE id = $1 AND status IN ('pending', 'retrying') *)
Claimable(st) == st \in {"pending", "retrying"}

ClaimedStatusUnchanged == "retrying"

(* SET status = 'processing' *)
ClaimedStatus == "processing"

(* the worker's own write of the outcome ends its hold on the claim *)
Release(h, w) == IF h.holder = w THEN [h EXCEPT !.holder = 0] ELSE h

HasUsage(e) == \E i \in 1..Len(email_usage) : email_usage[i].email_id = e

UsageCount(e) == Cardinality({i \in 1..Len(email_usage) : email_usage[i].email_id = e})

(* date_trunc('month', now())::date; the model runs within one month *)
BillingMonth == 1

(* SELECT COUNT FROM email_usage WHERE account_id = $1 AND month = $2 *)
getCurrentMonthUsage(a) ==
  Cardinality({i \in 1..Len(email_usage) :
                 /\ email_usage[i].account_id = a
                 /\ email_usage[i].month = BillingMonth})

(* accounts.monthly_limit (DEFAULT 1000), here MonthlyLimit for every account *)
getAccountLimit(a) == MonthlyLimit

InsertUsageSkipped(u, a, e, now) == u

InsertUsageUpsert(u, a, e, now) ==
  IF \E i \in 1..Len(u) : u[i].email_id = e
  THEN [i \in 1..Len(u) |->
          IF u[i].email_id = e THEN [u[i] EXCEPT !.created_at = now] ELSE u[i]]
  ELSE Append(u, [account_id |-> a, email_id |-> e, month |-> BillingMonth,
                  created_at |-> now])

InsertUsageNoConflictClause(u, a, e, now) ==
  Append(u, [account_id |-> a, email_id |-> e, month |-> BillingMonth,
             created_at |-> now])

(* INSERT INTO email_usage ... ON CONFLICT DO NOTHING under UNIQUE(email_id) *)
InsertUsage(u, a, e, now) ==
  IF \E i \in 1..Len(u) : u[i].email_id = e
  THEN u
  ELSE Append(u, [account_id |-> a, email_id |-> e, month |-> BillingMonth,
                  created_at |-> now])

MarkSentResetAttempts(row, m) ==
  [row EXCEPT !.status = "sent", !.provider_message_id = m, !.sent_at = m,
              !.attempts = 0]

MarkSentStatusOnly(row, m) == [row EXCEPT !.status = "sent"]

(* UPDATE emails SET status = 'sent', provider_message_id, sent_at WHERE id *)
MarkSent(row, m) ==
  [row EXCEPT !.status = "sent", !.provider_message_id = m, !.sent_at = m]

NextAttemptsStale(claimed) == claimed.attempts

(* const attempts = (email.attempts || 0) + 1 *)
NextAttempts(claimed) == claimed.attempts + 1

FailureStatusOffByOne(n) == IF n > MAX_ATTEMPTS THEN "failed" ELSE "retrying"

(* terminal = attempts >= 5; terminal ? "failed" : "retrying" *)
FailureStatus(n) == IF n >= MAX_ATTEMPTS THEN "failed" ELSE "retrying"

MarkFailureClearingContent(row, n, msg) ==
  [row EXCEPT !.attempts = n, !.status = FailureStatus(n), !.last_error = msg,
              !.content = NULL]

(* UPDATE emails SET attempts = $2, status = $3, last_error = $4 WHERE id *)
MarkFailure(row, n, msg) ==
  [row EXCEPT !.attempts = n, !.status = FailureStatus(n), !.last_error = msg]

Reset(w) ==
  /\ job' = [job EXCEPT ![w] = 0]
  /\ email' = [email EXCEPT ![w] = NoEmail]
  /\ messageId' = [messageId EXCEPT ![w] = 0]
  /\ err' = [err EXCEPT ![w] = NULL]
  /\ webhook' = [webhook EXCEPT ![w] = NoWebhook]

(* ---- submission gateway: POST /emails/send ---- *)
UniqueViolationNever(a, k) == FALSE

(* UNIQUE(account_id, idempotency_key): the INSERT raises 23505 *)
UniqueViolation(a, k) ==
  \E i \in Ids : emails[i].account_id = a /\ emails[i].idempotency_key = k

(* SELECT id FROM emails WHERE account_id=$1 AND idempotency_key=$2; rows[0].id *)
ExistingId(a, k) ==
  CHOOSE i \in Ids : emails[i].account_id = a /\ emails[i].idempotency_key = k

(* res.status(code).json({ id }) *)
Response(a, k, id, code) == [account |-> a, key |-> k, id |-> id, code |-> code]

(* enqueued = FALSE: enqueueEmail rejects after the INSERT; the handler     *)
(* rethrows (no id is answered) and the pending row stays without a job.   *)
Submit(a, k, enqueued) ==
  IF UniqueViolation(a, k)
  THEN \* unique violation 23505: answer the existing id, nothing written
       /\ enqueued   \* enqueueEmail is not reached on this path
       /\ responses' = responses \cup {Response(a, k, ExistingId(a, k), 200)}
       /\ UNCHANGED <<emails, email_usage, queue, pc, job, email, messageId,
                      err, hist, webhook, reads, limiter, faults>>
  ELSE /\ Len(emails) < MaxEmails
       /\ enqueued \/ faults < MaxFaults
       /\ emails' = Append(emails, NewEmail(a, k))
       /\ queue' = Append(queue, NewJob(enqueued))
       /\ hist' = Append(hist, [NewHist EXCEPT !.enqueues = IF enqueued THEN 1 ELSE 0])
       /\ faults' = IF enqueued THEN faults ELSE faults + 1
       /\ responses' = IF enqueued
                       THEN responses \cup {Response(a, k, Len(emails) + 1, 202)}
                       ELSE responses
       /\ UNCHANGED <<email_usage, pc, job, email, messageId, err, webhook, reads, limiter>>

(* ---- BullMQ: hand a waiting job to an idle worker ---- *)
Deliver(w, e) ==
  /\ pc[w] = "idle"
  /\ queue[e].state = "wait"
  /\ queue' = [queue EXCEPT ![e].state = "active", ![e].lock = w]
  /\ pc' = [pc EXCEPT ![w] = "claim"]
  /\ job' = [job EXCEPT ![w] = e]
  /\ UNCHANGED <<emails, email_usage, email, messageId, err, hist, faults>>
  /\ UNCHANGED <<webhook, responses, reads, limiter>>

(* ---- BullMQ hands over a job that no submission enqueued: its data     ---- *)
(* ---- carries no emailId (0) or an id that is not in the emails table  ---- *)
DeliverStray(w, id) ==
  /\ pc[w] = "idle"
  /\ faults < MaxFaults
  /\ faults' = faults + 1
  /\ job' = [job EXCEPT ![w] = id]
  /\ IF id = 0
     THEN \* if (!emailId) throw new Error("No emailId in job data")
          /\ pc' = [pc EXCEPT ![w] = "throw"]
          /\ err' = [err EXCEPT ![w] = ErrNoEmailId]
     ELSE /\ pc' = [pc EXCEPT ![w] = "claim"]
          /\ UNCHANGED err
  /\ UNCHANGED <<emails, email_usage, queue, email, messageId, hist>>
  /\ UNCHANGED <<webhook, responses, reads, limiter>>

(* ---- Step 1: atomic claim ---- *)
Claim(w) ==
  /\ pc[w] = "claim"
  /\ LET e == job[w] IN
     IF e \in Ids /\ Claimable(emails[e].status)
     THEN /\ emails' = [emails EXCEPT ![e].status = ClaimedStatus]
          /\ email' = [email EXCEPT ![w] =
                 [attempts |-> emails[e].attempts, account_id |-> emails[e].account_id]]
          /\ hist' = [hist EXCEPT ![e].claims = @ + 1, ![e].holder = w]
          /\ pc' = [pc EXCEPT ![w] = "send"]
     ELSE \* rowCount === 0: already processed, skipping
          /\ pc' = [pc EXCEPT ![w] = "return"]
          /\ UNCHANGED <<emails, email, hist>>
  /\ UNCHANGED <<email_usage, queue, job, messageId, err, faults>>
  /\ UNCHANGED <<webhook, responses, reads, limiter>>

(* the claim query itself is rejected by the store *)
ClaimStoreError(w) ==
  /\ pc[w] = "claim"
  /\ faults < MaxFaults
  /\ faults' = faults + 1
  /\ pc' = [pc EXCEPT ![w] = "throw"]
  /\ err' = [err EXCEPT ![w] = ErrStore]
  /\ UNCHANGED <<emails, email_usage, queue, job, email, messageId, hist>>
  /\ UNCHANGED <<webhook, responses, reads, limiter>>

HasMessageIdUnchecked(id) == TRUE

(* if (!response.data?.id) throw new Error("No message ID returned ...") *)
HasMessageId(id) == id # 0

(* ---- Step 2: resend.emails.send ---- *)
(* accepted: the response carries an id; noid: the call resolves with no   *)
(* id (response.data is null or has no id); error: the call rejects;       *)
(* hang: the call never settles, and the processor stays at its await      *)
Send(w, outcome) ==
  /\ pc[w] = "send"
  /\ LET e == job[w]
         id == IF outcome = "accepted" THEN hist[e].accepted + 1 ELSE 0 IN
     CASE outcome = "error" ->
            /\ err' = [err EXCEPT ![w] = ErrProvider]
            /\ pc' = [pc EXCEPT ![w] = "catch"]
            /\ hist' = [hist EXCEPT ![e].sends = @ + 1]
            /\ UNCHANGED messageId
       [] outcome = "hang" ->
            /\ pc' = [pc EXCEPT ![w] = "awaiting"]
            /\ hist' = [hist EXCEPT ![e].sends = @ + 1]
            /\ UNCHANGED <<messageId, err>>
       [] outcome \in {"accepted", "noid"} ->
            /\ hist' = IF outcome = "accepted"
                       THEN [hist EXCEPT ![e].accepted = @ + 1, ![e].sends = @ + 1]
                       ELSE [hist EXCEPT ![e].sends = @ + 1]
            /\ IF HasMessageId(id)
               THEN /\ messageId' = [messageId EXCEPT ![w] = id]
                    /\ pc' = [pc EXCEPT ![w] = "commit"]
                    /\ UNCHANGED err
               ELSE /\ err' = [err EXCEPT ![w] = ErrNoId]
                    /\ pc' = [pc EXCEPT ![w] = "catch"]
                    /\ UNCHANGED messageId
  /\ UNCHANGED <<emails, email_usage, queue, job, email, faults>>
  /\ UNCHANGED <<webhook, responses, reads, limiter>>

(* ---- Step 3: BEGIN; INSERT email_usage; UPDATE emails; COMMIT ---- *)
CommitApply(w) ==
  LET e == job[w] IN
  /\ email_usage' = InsertUsage(email_usage, email[w].account_id, e, messageId[w])
  /\ emails' = [emails EXCEPT ![e] = MarkSent(@, messageId[w])]
  /\ hist' = [hist EXCEPT ![e] = Release(@, w)]

Commit(w, outcome) ==
  /\ pc[w] = "commit"
  /\ CASE outcome = "ok" ->
            /\ CommitApply(w)
            /\ pc' = [pc EXCEPT ![w] = "notify_sent"]
            /\ UNCHANGED <<err, faults>>
       [] outcome = "rejected" ->
            \* the transaction fails and nothing of it is visible
            /\ err' = [err EXCEPT ![w] = ErrCommit]
            /\ pc' = [pc EXCEPT ![w] = "catch"]
            /\ UNCHANGED <<emails, email_usage, hist, faults>>
       [] outcome = "lost_ack" ->
            \* the store commits, the worker's await rejects (connection lost)
            /\ faults < MaxFaults
            /\ faults' = faults + 1
            /\ CommitApply(w)
            /\ err' = [err EXCEPT ![w] = ErrCommit]
            /\ pc' = [pc EXCEPT ![w] = "catch"]
  /\ UNCHANGED <<queue, job, email, messageId>>
  /\ UNCHANGED <<webhook, responses, reads, limiter>>

(* ---- the webhook endpoint's answers to one POST ---- *)
(* rejected: fetch rejects (transport failure, or abort after WEBHOOK_TIMEOUT_MS) *)
WebhookResponses == {"2xx", "non2xx", "rejected"}

(* postWebhook returns normally iff fetch resolves with response.ok *)
postWebhook(r) == r = "2xx"

(* for (attempt = 0; attempt <= DELAYS.length; attempt += 1): rs[i] is the *)
(* endpoint's answer to the i-th POST                                      *)
RECURSIVE WebhookLoop(_, _, _)
WebhookLoop(attempt, rs, t) ==
  IF attempt > Len(WEBHOOK_RETRY_DELAYS_MS)
  THEN t
  ELSE LET ok == postWebhook(rs[attempt + 1])
           t1 == [t EXCEPT !.posts = Append(@, ok)] IN
       IF ok
       THEN t1
       ELSE IF attempt >= Len(WEBHOOK_RETRY_DELAYS_MS)
            THEN [t1 EXCEPT !.threw = TRUE]
            ELSE WebhookLoop(attempt + 1, rs,
                   [t1 EXCEPT !.slept = Append(@, WEBHOOK_RETRY_DELAYS_MS[attempt + 1])])

sendWebhookWithRetry(rs) == WebhookLoop(0, rs, [NoWebhook EXCEPT !.lookup = "url"])

(* SELECT webhook_url FROM accounts WHERE id = $1; if (!webhookUrl) return *)
notifyWebhook(lookup, rs) ==
  CASE lookup = "error" -> [NoWebhook EXCEPT !.lookup = "error", !.threw = TRUE]
    [] lookup = "none" -> [NoWebhook EXCEPT !.lookup = "none"]
    [] lookup = "url" -> sendWebhookWithRetry(rs)

(* the inputs of one notifyWebhook call and the trace it leaves *)
NotifyTraces ==
  {notifyWebhook(lookup, rs) :
     lookup \in {"error", "none", "url"},
     rs \in [1..(Len(WEBHOOK_RETRY_DELAYS_MS) + 1) -> WebhookResponses]}

AfterSentNotifyUncaught(threw) == IF threw THEN "catch" ELSE "return"

(* try { await notifyWebhook(...) } catch (err) { console.warn(...) } *)
AfterSentNotify(threw) == "return"

(* { event: "email.sent", data: { email_id, account_id, ..., status: "sent", *)
(*   provider_message_id: messageId, sent_at } }                            *)
SentPayload(w) ==
  [NoData EXCEPT !.email_id = job[w], !.account_id = email[w].account_id,
                 !.status = "sent", !.provider_message_id = messageId[w]]

(* { event: "email.failed", data: { email_id, account_id, ...,             *)
(*   status: "failed", attempts, last_error: err.message } }               *)
FailedPayload(w) ==
  [NoData EXCEPT !.email_id = job[w], !.account_id = email[w].account_id,
                 !.status = "failed", !.attempts = NextAttempts(email[w]),
                 !.last_error = err[w]]

(* ---- notifyWebhook(email.sent), failure caught and logged ---- *)
NotifySent(w) ==
  /\ pc[w] = "notify_sent"
  /\ \E t \in NotifyTraces :
       /\ webhook' = [webhook EXCEPT ![w] =
                        [t EXCEPT !.event = "email.sent", !.data = SentPayload(w)]]
       /\ pc' = [pc EXCEPT ![w] = AfterSentNotify(t.threw)]
  /\ hist' = [hist EXCEPT ![job[w]].sentEvents = @ + 1]
  /\ UNCHANGED <<emails, email_usage, queue, job, email, messageId, err,
                 responses, reads, limiter, faults>>

AfterBookkeepingAlwaysNotify(n) == "notify_failed"

(* const terminal = attempts >= 5; ... if (terminal) { notifyWebhook } throw err *)
AfterBookkeeping(n) == IF n >= MAX_ATTEMPTS THEN "notify_failed" ELSE "throw"

(* ---- catch: failure bookkeeping ---- *)
Bookkeeping(w) ==
  /\ pc[w] = "catch"
  /\ LET e == job[w]
         n == NextAttempts(email[w]) IN
     /\ emails' = [emails EXCEPT ![e] = MarkFailure(@, n, err[w])]
     /\ hist' = [hist EXCEPT ![e] =
            [Release(@, w) EXCEPT !.failures = @ + 1, !.lastErr = err[w]]]
     /\ pc' = [pc EXCEPT ![w] = AfterBookkeeping(n)]
  /\ UNCHANGED <<email_usage, queue, job, email, messageId, err, faults>>
  /\ UNCHANGED <<webhook, responses, reads, limiter>>

(* the bookkeeping UPDATE is rejected by the store; its error propagates *)
BookkeepingStoreError(w) ==
  /\ pc[w] = "catch"
  /\ faults < MaxFaults
  /\ faults' = faults + 1
  /\ err' = [err EXCEPT ![w] = ErrStore]
  /\ pc' = [pc EXCEPT ![w] = "throw"]
  /\ UNCHANGED <<emails, email_usage, queue, job, email, messageId, hist>>
  /\ UNCHANGED <<webhook, responses, reads, limiter>>

(* ---- notifyWebhook(email.failed), failure caught and logged ---- *)
NotifyFailed(w) ==
  /\ pc[w] = "notify_failed"
  /\ \E t \in NotifyTraces :
       webhook' = [webhook EXCEPT ![w] =
                     [t EXCEPT !.event = "email.failed", !.data = FailedPayload(w)]]
  /\ pc' = [pc EXCEPT ![w] = "throw"]
  /\ hist' = [hist EXCEPT ![job[w]].failedEvents = @ + 1]
  /\ UNCHANGED <<emails, email_usage, queue, job, email, messageId, err,
                 responses, reads, limiter, faults>>

(* ---- the processor returns: BullMQ completes the job ---- *)
Return(w) ==
  /\ pc[w] = "return"
  /\ LET e == job[w] IN
     queue' = IF e \in Ids /\ queue[e].lock = w
              THEN [queue EXCEPT ![e].state = "completed", ![e].lock = 0]
              ELSE queue
  /\ pc' = [pc EXCEPT ![w] = "idle"]
  /\ Reset(w)
  /\ UNCHANGED <<emails, email_usage, hist, responses, reads, limiter, faults>>

JobAfterFailureNoRetry(j) ==
  [j EXCEPT !.attemptsMade = @ + 1, !.state = "failed", !.lock = 0]

(* backoff: { type: "exponential", delay: 2000 } *)
BACKOFF_DELAY == 2000

BackoffFixed(attemptsMade) == BACKOFF_DELAY

(* BullMQ's exponential strategy: Math.round(Math.pow(2, attemptsMade - 1) * delay), *)
(* evaluated with the number of attempts that have failed so far                    *)
Backoff(attemptsMade) == BACKOFF_DELAY * 2 ^ (attemptsMade - 1)

(* attempts: 5, backoff exponential: retry while attemptsMade < attempts *)
JobAfterFailure(j) ==
  [j EXCEPT !.attemptsMade = @ + 1,
            !.state = IF j.attemptsMade + 1 < QUEUE_ATTEMPTS THEN "wait" ELSE "failed",
            !.lock = 0,
            !.delays = IF j.attemptsMade + 1 < QUEUE_ATTEMPTS
                       THEN Append(@, Backoff(j.attemptsMade + 1)) ELSE @]

(* ---- the processor throws: BullMQ schedules a retry or fails the job ---- *)
Throw(w) ==
  /\ pc[w] = "throw"
  /\ LET e == job[w] IN
     queue' = IF e \in Ids /\ queue[e].lock = w
              THEN [queue EXCEPT ![e] = JobAfterFailure(@)]
              ELSE queue
  /\ pc' = [pc EXCEPT ![w] = "idle"]
  /\ Reset(w)
  /\ UNCHANGED <<emails, email_usage, hist, responses, reads, limiter, faults>>

(* ---- the worker process dies in the middle of a job ---- *)
Crash(w) ==
  /\ pc[w] # "idle"
  /\ faults < MaxFaults
  /\ faults' = faults + 1
  /\ LET e == job[w] IN
     /\ queue' = IF e \in Ids /\ queue[e].lock = w
                 THEN [queue EXCEPT ![e].lock = 0] ELSE queue
     /\ hist' = IF e \in Ids /\ hist[e].holder = w
                THEN [hist EXCEPT ![e].holder = -1] ELSE hist
  /\ pc' = [pc EXCEPT ![w] = "idle"]
  /\ Reset(w)
  /\ UNCHANGED <<emails, email_usage, responses, reads, limiter>>

(* ---- BullMQ stalled-job recovery: an active job whose lock expired waits again ---- *)
Stall(e) ==
  /\ queue[e].state = "active"
  /\ faults < MaxFaults
  /\ faults' = faults + 1
  /\ queue' = [queue EXCEPT ![e].state = "wait", ![e].lock = 0]
  /\ UNCHANGED <<emails, email_usage, pc, job, email, messageId, err, hist>>
  /\ UNCHANGED <<webhook, responses, reads, limiter>>

Next ==
  \/ \E a \in Accounts, k \in Keys, q \in BOOLEAN : Submit(a, k, q)
  \/ \E w \in Workers, e \in Ids : Deliver(w, e)
  \/ \E w \in Workers, id \in {0, NoSuchId} : DeliverStray(w, id)
  \/ \E w \in Workers : Claim(w)
  \/ \E w \in Workers : ClaimStoreError(w)
  \/ \E w \in Workers, o \in {"accepted", "noid", "error", "hang"} : Send(w, o)
  \/ \E w \in Workers, o \in {"ok", "rejected", "lost_ack"} : Commit(w, o)
  \/ \E w \in Workers : NotifySent(w)
  \/ \E w \in Workers : Bookkeeping(w)
  \/ \E w \in Workers : BookkeepingStoreError(w)
  \/ \E w \in Workers : NotifyFailed(w)
  \/ \E w \in Workers : Return(w)
  \/ \E w \in Workers : Throw(w)
  \/ \E w \in Workers : Crash(w)
  \/ \E e \in Ids : Stall(e)

Spec == Init /\ [][Next]_vars

(* the steps the processor of worker w takes by itself once the promise it *)
(* awaits has settled                                                      *)
WorkerStep(w) ==
  \/ Claim(w)
  \/ \E o \in {"accepted", "noid", "error", "hang"} : Send(w, o)
  \/ \E o \in {"ok", "rejected"} : Commit(w, o)
  \/ NotifySent(w)
  \/ Bookkeeping(w)
  \/ NotifyFailed(w)
  \/ Return(w)
  \/ Throw(w)

(* the event loop runs every processor whose awaited call has settled *)
LiveSpec == Spec /\ \A w \in Workers : WF_vars(WorkerStep(w))

(* BullMQ hands a waiting job to some idle worker *)
QueueStep(e) == e \in Ids /\ \E w \in Workers : Deliver(w, e)

(* fair workers and fair redelivery of waiting jobs *)
FairSpec ==
  /\ Spec
  /\ \A w \in Workers : WF_vars(WorkerStep(w))
  /\ \A e \in 1..MaxEmails : WF_vars(QueueStep(e))

TypeOK ==
  /\ Len(emails) <= MaxEmails
  /\ \A e \in Ids : emails[e].status \in
        {"pending", "processing", "retrying", "sent", "failed"}
  /\ faults \in 0..MaxFaults

(* ---- GET /emails/:id, run on stored tables of several accounts ---- *)
(* the accounts that can authenticate: one more than those that submit   *)
(* under Spec, so that a table holds rows of at least two accounts       *)
Tenants == 1..(NAccounts + 1)

RequestIds == 0..NoSuchId

GetEmailAnyAccount(table, a, id) ==
  IF id <= 0
  THEN [code |-> 400, body |-> [error |-> "Invalid email id"]]
  ELSE IF id \in 1..Len(table)
       THEN [code |-> 200,
             body |-> [id |-> id, content |-> table[id].content,
                       status |-> table[id].status,
                       attempts |-> table[id].attempts,
                       last_error |-> table[id].last_error,
                       provider_message_id |-> table[id].provider_message_id,
                       sent_at |-> table[id].sent_at]]
       ELSE [code |-> 404, body |-> [error |-> "Email not found"]]

(* if (emailId <= 0) 400; SELECT ... FROM emails WHERE id = $1 AND        *)
(* account_id = $2; no row: 404; else the row's columns (not account_id,  *)
(* not idempotency_key)                                                   *)
GetEmail(table, a, id) ==
  IF id <= 0
  THEN [code |-> 400, body |-> [error |-> "Invalid email id"]]
  ELSE IF id \in 1..Len(table) /\ table[id].account_id = a
       THEN [code |-> 200,
             body |-> [id |-> id, content |-> table[id].content,
                       status |-> table[id].status,
                       attempts |-> table[id].attempts,
                       last_error |-> table[id].last_error,
                       provider_message_id |-> table[id].provider_message_id,
                       sent_at |-> table[id].sent_at]]
       ELSE [code |-> 404, body |-> [error |-> "Email not found"]]

(* the rows the pipeline leaves for a submission: as inserted, after a    *)
(* first-attempt success commit, after the fifth failed attempt           *)
StoredRows ==
  UNION {{NewEmail(a, k),
          MarkSent(NewEmail(a, k), 1),
          MarkFailure(NewEmail(a, k), MAX_ATTEMPTS, ErrProvider)} :
            a \in Tenants, k \in Keys}

(* the tables of up to MaxEmails rows that respect UNIQUE (account_id,    *)
(* idempotency_key)                                                       *)
StoredTables ==
  {t \in UNION {[1..n -> StoredRows] : n \in 0..MaxEmails} :
     \A i \in DOMAIN t, j \in DOMAIN t :
        (t[i].account_id = t[j].account_id
           /\ t[i].idempotency_key = t[j].idempotency_key) => i = j}

ReadInit ==
  /\ emails \in StoredTables
  /\ email_usage = << >>
  /\ queue = << >>
  /\ pc = [w \in Workers |-> "idle"]
  /\ job = [w \in Workers |-> 0]
  /\ email = [w \in Workers |-> NoEmail]
  /\ messageId = [w \in Workers |-> 0]
  /\ err = [w \in Workers |-> NULL]
  /\ hist = << >>
  /\ webhook = [w \in Workers |-> NoWebhook]
  /\ responses = {}
  /\ reads = NoRead
  /\ limiter = NoLimiter
  /\ faults = 0

(* ---- router.get("/:id") for the authenticated account a ---- *)
Get(a, id) ==
  /\ reads' = [account |-> a, id |-> id, response |-> GetEmail(emails, a, id)]
  /\ UNCHANGED <<emails, email_usage, queue, pc, job, email, messageId, err,
                 hist, webhook, responses, limiter, faults>>

ReadNext == \E a \in Tenants, id \in RequestIds : Get(a, id)

ReadSpec == ReadInit /\ [][ReadNext]_vars

(* ---- rateLimit middleware (Redis INCR / EXPIRE fixed window) ---- *)
(* const limit = req.account.rateLimit, here RateLimit for every account *)
LimitOf(a) == RateLimit

ExceedsOffByOne(current, limit) == current > limit + 1

(* if (current > limit) return res.status(429) *)
Exceeds(current, limit) == current > limit

RateUnchanged ==
  UNCHANGED <<emails, email_usage, queue, pc, job, email, messageId, err,
              hist, webhook, responses, reads>>

(* const current = await redis.incr(key): atomic, creates the key at 1 *)
Incr(p, a) ==
  /\ limiter.h[p].pc = "idle"
  /\ limiter.count[a] < RateLimit + 2
  /\ LET c == limiter.count[a] + 1 IN
     limiter' = [limiter EXCEPT
        !.count[a] = c,
        !.h[p] = [pc |-> IF c = 1 THEN "expire" ELSE "decide", account |-> a,
                  current |-> c, stale |-> FALSE, answer |-> "none"]]
  /\ UNCHANGED faults
  /\ RateUnchanged

(* redis.incr rejects: catch, fail open, next() *)
IncrFails(p, a) ==
  /\ limiter.h[p].pc = "idle"
  /\ faults < MaxFaults
  /\ faults' = faults + 1
  /\ limiter' = [limiter EXCEPT
        !.h[p] = [IdleHandler EXCEPT !.account = a, !.answer = "failopen"]]
  /\ RateUnchanged

(* if (current === 1) await redis.expire(key, 60) *)
Expire(p) ==
  /\ limiter.h[p].pc = "expire"
  /\ LET a == limiter.h[p].account IN
     limiter' = [limiter EXCEPT
        !.ttl[a] = IF limiter.count[a] > 0 THEN RATE_WINDOW_SECONDS ELSE @,
        !.h[p].pc = "decide"]
  /\ UNCHANGED faults
  /\ RateUnchanged

(* redis.expire rejects: catch, fail open, next(); the key keeps no expiry *)
ExpireFails(p) ==
  /\ limiter.h[p].pc = "expire"
  /\ faults < MaxFaults
  /\ faults' = faults + 1
  /\ LET a == limiter.h[p].account IN
     limiter' = [limiter EXCEPT
        !.passed[a] = IF limiter.h[p].stale THEN @ ELSE @ + 1,
        !.h[p] = [IdleHandler EXCEPT !.account = a, !.answer = "failopen"]]
  /\ RateUnchanged

(* the test of current against the limit and the answer *)
Decide(p) ==
  /\ limiter.h[p].pc = "decide"
  /\ LET a == limiter.h[p].account
         over == Exceeds(limiter.h[p].current, LimitOf(a)) IN
     limiter' = [limiter EXCEPT
        !.passed[a] = IF over \/ limiter.h[p].stale THEN @ ELSE @ + 1,
        !.h[p] = [IdleHandler EXCEPT !.account = a,
                                     !.current = limiter.h[p].current,
                                     !.answer = IF over THEN "429" ELSE "pass"]]
  /\ UNCHANGED faults
  /\ RateUnchanged

(* the API process stops while a request is between two awaits *)
StopHandler(p) ==
  /\ limiter.h[p].pc # "idle"
  /\ faults < MaxFaults
  /\ faults' = faults + 1
  /\ limiter' = [limiter EXCEPT !.h[p] = IdleHandler]
  /\ RateUnchanged

(* TickSeconds pass: Redis deletes the keys whose expiry is reached *)
Tick ==
  /\ limiter.clock < MaxClock
  /\ LET gone == {a \in Accounts :
                    limiter.ttl[a] # NoTTL /\ limiter.ttl[a] - TickSeconds <= 0} IN
     limiter' = [limiter EXCEPT
        !.clock = @ + 1,
        !.count = [a \in Accounts |-> IF a \in gone THEN 0 ELSE @[a]],
        !.passed = [a \in Accounts |-> IF a \in gone THEN 0 ELSE @[a]],
        !.ttl = [a \in Accounts |->
                  IF a \in gone \/ @[a] = NoTTL THEN NoTTL ELSE @[a] - TickSeconds],
        !.h = [p \in Handlers |->
                 IF @[p].pc # "idle" /\ @[p].account \in gone
                 THEN [@[p] EXCEPT !.stale = TRUE] ELSE @[p]]]
  /\ UNCHANGED faults
  /\ RateUnchanged

RateNext ==
  \/ \E p \in Handlers, a \in Accounts : Incr(p, a)
  \/ \E p \in Handlers, a \in Accounts : IncrFails(p, a)
  \/ \E p \in Handlers : Expire(p)
  \/ \E p \in Handlers : ExpireFails(p)
  \/ \E p \in Handlers : Decide(p)
  \/ \E p \in Handlers : StopHandler(p)
  \/ Tick

RateSpec == Init /\ [][RateNext]_vars

(* ======================= properties ======================= *)

InFlight(w, e) == job[w] = e /\ pc[w] \in {"send", "awaiting", "commit", "catch"}

(* C1: when a worker executes the claim query on an email, it receives the *)
(* row exactly when the status was pending or retrying, and the status then *)
(* is processing, so that every other worker at the claim step of the same *)
(* email finds no claimable row; a worker that receives no row goes on to  *)
(* return with no error and has written nothing.                           *)
C1_ClaimStep(w, e) ==
  /\ pc[w] = "claim"
  /\ job[w] = e
  /\ pc'[w] \in {"send", "return"}

C1_ConcurrentClaim ==
  [][\A w \in Workers : \A e \in Ids :
       C1_ClaimStep(w, e) =>
         IF emails[e].status \in {"pending", "retrying"}
         THEN /\ pc'[w] = "send"
              /\ emails'[e].status = "processing"
              /\ hist'[e].claims = hist[e].claims + 1
              /\ \A v \in Workers \ {w} :
                   (pc[v] = "claim" /\ job[v] = e) =>
                      /\ pc'[v] = "claim"
                      /\ emails'[e].status \notin {"pending", "retrying"}
         ELSE /\ pc'[w] = "return"
              /\ err'[w] = NULL
              /\ emails' = emails
              /\ hist' = hist]_vars

(* two workers were handed the same job: one received the row, the other none *)
C1_Witness ==
  \E w \in Workers, v \in Workers, e \in Ids :
     /\ w # v
     /\ job[w] = e /\ pc[w] = "send"
     /\ job[v] = e /\ pc[v] = "return"
     /\ emails[e].status = "processing"
     /\ hist[e].claims = 1

(* C2: the provider returns a message id for at most one send of an email. *)
C2_AtMostOneAccept == \A e \in Ids : hist[e].accepted <= 1

(* C3: there is never more than one UsageRecord of an email id, and a      *)
(* success-commit that returned without error leaves the email sent with   *)
(* exactly one UsageRecord, also when one existed before it ran.           *)
C3_OneUsageRecord ==
  \A e \in Ids :
    /\ UsageCount(e) <= 1
    /\ \A w \in Workers :
         (job[w] = e /\ pc[w] = "notify_sent") =>
            /\ emails[e].status = "sent"
            /\ UsageCount(e) = 1

(* a commit has returned without error for an email whose UsageRecord was  *)
(* inserted by an earlier commit                                           *)
C3_Witness ==
  \E w \in Workers, e \in Ids, i \in 1..Len(email_usage) :
     /\ job[w] = e /\ pc[w] = "notify_sent"
     /\ messageId[w] = 2
     /\ email_usage[i].email_id = e
     /\ email_usage[i].created_at = 1
     /\ emails[e].provider_message_id = 2

(* C4: a UsageRecord of an email exists exactly when its status is sent.   *)
C4_UsageIffSent ==
  \A e \in Ids : HasUsage(e) <=> emails[e].status = "sent"

(* C5: while a worker holds the claim on an email (from its claim to its   *)
(* own write of sent, retrying or failed) the status is processing, no     *)
(* claim on that email succeeds, and the row changes only by a step of the *)
(* holder; at no time are two workers past the claim and before the commit *)
(* of the same email.                                                      *)
C5_Held ==
  \A e \in Ids :
    /\ hist[e].holder # 0 => emails[e].status = "processing"
    /\ Cardinality({w \in Workers :
                        job[w] = e /\ pc[w] \in {"send", "awaiting", "commit"}}) <= 1
    /\ \A w \in Workers :
         (job[w] = e /\ pc[w] \in {"send", "awaiting", "commit"}) => hist[e].holder = w

C5_HolderStep ==
  \A e \in Ids :
    hist[e].holder # 0 =>
       /\ hist'[e].claims = hist[e].claims
       /\ emails'[e] # emails[e] =>
            /\ hist[e].holder \in Workers
            /\ job[hist[e].holder] = e
            /\ pc[hist[e].holder] \in {"commit", "catch"}
            /\ pc'[hist[e].holder] # pc[hist[e].holder]

C5_SingleOwner == []C5_Held /\ [][C5_HolderStep]_vars

(* a worker holds the claim while another worker's claim found no row *)
C5_Witness ==
  \E w \in Workers, v \in Workers, e \in Ids :
     /\ w # v
     /\ hist[e].holder = w /\ job[w] = e /\ pc[w] = "commit"
     /\ job[v] = e /\ pc[v] = "return"

(* C6: every change of an email's status is one of the five listed edges.  *)
StatusEdges ==
  {<<"pending", "processing">>, <<"retrying", "processing">>,
   <<"processing", "sent">>, <<"processing", "retrying">>,
   <<"processing", "failed">>}

C6_OnlyListedEdges ==
  [][\A e \in Ids :
       emails'[e].status # emails[e].status =>
          <<emails[e].status, emails'[e].status>> \in StatusEdges]_vars

(* C7: once the status is sent or failed the row's status, attempts,       *)
(* last_error, provider_message_id and sent_at never change again.         *)
C7_TerminalFrozen ==
  [][\A e \in Ids :
       emails[e].status \in {"sent", "failed"} => emails'[e] = emails[e]]_vars

(* C8: the failure bookkeeping of a claimed attempt writes attempts = the  *)
(* claimed row's attempts + 1 (which is the stored attempts + 1), writes   *)
(* last_error = the message of the exception raised by the provider call   *)
(* or the commit, and writes retrying when the new attempts is below 5 and *)
(* failed otherwise.                                                       *)
C8_BookkeepingStep(w, e) ==
  /\ pc[w] = "catch"
  /\ job[w] = e
  /\ pc'[w] \in {"throw", "notify_failed"}
  /\ hist'[e].failures # hist[e].failures

C8_FailureBookkeeping ==
  [][\A w \in Workers : \A e \in Ids :
       C8_BookkeepingStep(w, e) =>
          /\ err[w] \in {ErrProvider, ErrNoId, ErrCommit}
          /\ emails'[e].attempts = email[w].attempts + 1
          /\ emails'[e].attempts = emails[e].attempts + 1
          /\ emails'[e].last_error = err[w]
          /\ emails'[e].status =
                IF emails'[e].attempts < 5 THEN "retrying" ELSE "failed"
          /\ pc'[w] = IF emails'[e].attempts < 5 THEN "throw" ELSE "notify_failed"]_vars

(* the second failed attempt of an email, caused by a commit error, is recorded *)
C8_Witness ==
  \E w \in Workers, e \in Ids :
     /\ job[w] = e /\ pc[w] = "throw"
     /\ emails[e].status = "retrying"
     /\ emails[e].attempts = 2
     /\ emails[e].last_error = ErrCommit

(* C9: once the failure of 5 claimed attempts of an email has been recorded *)
(* its status is failed, attempts is 5 and last_error is the message of the *)
(* 5th failure; never more than 5 claims of an email succeed, and no worker *)
(* is at or past the provider call for an email whose status is failed.     *)
C9_RetryExhaustion ==
  \A e \in Ids :
    /\ hist[e].claims <= 5
    /\ hist[e].failures <= 5
    /\ hist[e].failures = 5 =>
          /\ emails[e].status = "failed"
          /\ emails[e].attempts = 5
          /\ emails[e].last_error = hist[e].lastErr
    /\ emails[e].status = "failed" =>
          /\ hist[e].failures = 5
          /\ \A w \in Workers :
               job[w] = e => pc[w] \notin {"send", "awaiting", "commit", "catch"}

(* after the 5th recorded failure a further delivery of the job claimed nothing *)
C9_Witness ==
  \E v \in Workers, e \in Ids :
     /\ hist[e].failures = 5
     /\ hist[e].claims = 5
     /\ emails[e].status = "failed"
     /\ job[v] = e /\ pc[v] = "return"

(* C10: an email is never left in processing with no worker handling it    *)
(* and no delivery of its job outstanding.                                 *)
C10_NoStaleProcessing ==
  \A e \in Ids :
    (emails[e].status = "processing" /\ queue[e].state \notin {"wait", "active"})
       => \E w \in Workers : InFlight(w, e)

(* C11: no job attempt returns cleanly from the claim of an email id that  *)
(* is not in the emails table; such an attempt ends with an error.         *)
C11_UnknownIdFailsLoudly ==
  \A w \in Workers : pc[w] = "return" => job[w] \in Ids

(* C12: when the provider call resolves without a message id, the attempt  *)
(* enters the failure path with the error "No message ID returned from     *)
(* Resend": that step inserts no UsageRecord and leaves the row unchanged; *)
(* the failure bookkeeping of that attempt, unless the store rejects it,   *)
(* adds one to attempts and writes retrying or failed (never sent) and the *)
(* message, and inserts no UsageRecord; the attempt then ends by throwing, *)
(* so the job is failed or scheduled for a retry, never completed.         *)
C12_NoIdResponse(w, e) ==
  /\ pc[w] = "send"
  /\ job[w] = e
  /\ pc'[w] \notin {"send", "awaiting", "idle"}
  /\ err'[w] # ErrProvider
  /\ hist'[e].accepted = hist[e].accepted

C12_NoIdIsFailure ==
  [][\A w \in Workers : \A e \in Ids :
       /\ C12_NoIdResponse(w, e) =>
            /\ pc'[w] = "catch"
            /\ err'[w] = ErrNoId
            /\ email_usage' = email_usage
            /\ emails' = emails
       /\ err'[w] = ErrNoId => pc'[w] \in {"catch", "notify_failed", "throw"}
       /\ (pc[w] = "catch" /\ job[w] = e /\ err[w] = ErrNoId
             /\ pc'[w] \notin {"catch", "idle"} /\ err'[w] = ErrNoId) =>
            /\ emails'[e].attempts = emails[e].attempts + 1
            /\ emails'[e].status \in {"retrying", "failed"}
            /\ emails'[e].last_error = ErrNoId
            /\ email_usage' = email_usage
       /\ (pc[w] = "throw" /\ job[w] = e /\ err[w] = ErrNoId
             /\ pc'[w] = "idle" /\ faults' = faults /\ queue[e].lock = w) =>
            /\ queue'[e].state \in {"wait", "failed"}
            /\ queue'[e].attemptsMade = queue[e].attemptsMade + 1]_vars

(* a response without id was recorded as the first failed attempt *)
C12_Witness ==
  \E w \in Workers, e \in Ids :
     /\ job[w] = e /\ pc[w] = "throw" /\ err[w] = ErrNoId
     /\ emails[e].status = "retrying"
     /\ emails[e].attempts = 1
     /\ emails[e].last_error = ErrNoId
     /\ ~HasUsage(e)

(* C13: when the email.sent notification fails (the account lookup fails,  *)
(* or every POST fails), the worker still goes on to return cleanly with   *)
(* no error, the notification writes nothing, the email stays sent with    *)
(* its UsageRecord and with the attempts it had when it was claimed, and   *)
(* the return completes the job (it is not scheduled for redelivery).      *)
C13_WebhookIsolation ==
  /\ [](\A w \in Workers :
         (pc[w] = "return" /\ webhook[w].threw) =>
            /\ job[w] \in Ids
            /\ err[w] = NULL
            /\ emails[job[w]].status = "sent"
            /\ emails[job[w]].attempts = email[w].attempts
            /\ HasUsage(job[w]))
  /\ [][\A w \in Workers :
         /\ (pc[w] = "notify_sent" /\ pc'[w] \notin {"notify_sent", "idle"}) =>
              /\ pc'[w] = "return"
              /\ emails' = emails
              /\ email_usage' = email_usage
              /\ queue' = queue
         /\ (pc[w] = "return" /\ webhook[w].threw /\ pc'[w] = "idle"
               /\ faults' = faults /\ queue[job[w]].lock = w) =>
              queue'[job[w]].state = "completed"]_vars

(* all four POSTs of an email.sent notification failed and the worker is   *)
(* about to return cleanly                                                 *)
C13_Witness ==
  \E w \in Workers :
     /\ pc[w] = "return"
     /\ webhook[w].threw
     /\ webhook[w].posts = <<FALSE, FALSE, FALSE, FALSE>>
     /\ job[w] \in Ids
     /\ emails[job[w]].status = "sent"

(* C14: one notification of an account with a webhook URL makes between 1  *)
(* and 4 POSTs, sleeps 1000, 2000 and 4000 ms before the 2nd, 3rd and 4th, *)
(* makes no POST after one that succeeded, and throws exactly when the 4th *)
(* POST failed; for an account without a webhook URL it makes no POST,     *)
(* sleeps nothing and returns normally.                                    *)
C14_BoundedWebhookRetry ==
  \A w \in Workers :
    LET t == webhook[w]
        n == Len(t.posts) IN
    /\ t.lookup = "url" =>
          /\ n \in 1..4
          /\ t.slept = SubSeq(<<1000, 2000, 4000>>, 1, n - 1)
          /\ \A i \in 1..(n - 1) : ~t.posts[i]
          /\ t.threw <=> (n = 4 /\ ~t.posts[4])
          /\ ~t.threw => t.posts[n]
    /\ t.lookup = "none" =>
          /\ n = 0
          /\ t.slept = << >>
          /\ ~t.threw

(* a notification succeeded at its 4th POST after sleeping 1 s, 2 s and 4 s *)
C14_Witness ==
  \E w \in Workers :
     /\ webhook[w].lookup = "url"
     /\ webhook[w].posts = <<FALSE, FALSE, FALSE, TRUE>>
     /\ webhook[w].slept = <<1000, 2000, 4000>>
     /\ ~webhook[w].threw

(* C15: a claim executed on an email whose status is sent, failed or       *)
(* processing hands the worker no row and changes nothing: the worker goes *)
(* on to return with no error, having made no provider call, no write to   *)
(* the emails table, no UsageRecord insert and no notification, and its    *)
(* return changes neither table.                                           *)
C15_MissStep(w, e) ==
  /\ pc[w] = "claim"
  /\ job[w] = e
  /\ emails[e].status \in {"sent", "failed", "processing"}
  /\ pc'[w] \in {"send", "return"}

C15_MissReturning(w) ==
  /\ pc[w] = "return"
  /\ email[w] = NoEmail

C15_CleanClaimMiss ==
  /\ [](\A w \in Workers :
         C15_MissReturning(w) =>
            /\ messageId[w] = 0
            /\ err[w] = NULL
            /\ webhook[w] = NoWebhook)
  /\ [][\A w \in Workers :
         /\ \A e \in Ids :
              C15_MissStep(w, e) =>
                 /\ pc'[w] = "return"
                 /\ email'[w] = NoEmail
                 /\ emails' = emails
                 /\ email_usage' = email_usage
                 /\ hist' = hist
         /\ (C15_MissReturning(w) /\ pc'[w] # "return") =>
              /\ pc'[w] = "idle"
              /\ emails' = emails
              /\ email_usage' = email_usage
              /\ \A e \in Ids : hist'[e].accepted = hist[e].accepted]_vars

(* a redelivered job of an email that is already sent found no row *)
C15_Witness ==
  \E w \in Workers :
     /\ C15_MissReturning(w)
     /\ job[w] \in Ids
     /\ emails[job[w]].status = "sent"
     /\ HasUsage(job[w])

(* C16: a worker that claimed an email is about to return only when the    *)
(* commit of its attempt is in the store and the email is sent, and is     *)
(* about to throw only when the commit of its attempt is not in the store  *)
(* and the failure bookkeeping of its attempt has been written.            *)
C16_Committed(w) ==
  /\ messageId[w] # 0
  /\ emails[job[w]].provider_message_id = messageId[w]

C16_SchedulerSignal ==
  \A w \in Workers :
    (job[w] \in Ids /\ email[w] # NoEmail) =>
       /\ pc[w] = "return" =>
             /\ C16_Committed(w)
             /\ emails[job[w]].status = "sent"
       /\ pc[w] = "throw" =>
             /\ ~C16_Committed(w)
             /\ hist[job[w]].holder # w
             /\ hist[job[w]].failures >= 1

(* C17: a provider call does not stay outstanding for ever: a worker that  *)
(* has called the provider eventually leaves the call (into the commit or  *)
(* into the failure path).                                                 *)
C17_ProviderCallBounded ==
  \A w \in Workers :
    (pc[w] \in {"send", "awaiting"}) ~> (pc[w] \notin {"send", "awaiting"})

(* C18: all responses of POST /emails/send for one (account, idempotency   *)
(* key) carry the same email id, that id is the id of the one row of the   *)
(* pair, and no pair ever has two rows.                                    *)
C18_RowsOf(a, k) ==
  {i \in Ids : emails[i].account_id = a /\ emails[i].idempotency_key = k}

C18_Idempotent ==
  /\ \A r1 \in responses, r2 \in responses :
        (r1.account = r2.account /\ r1.key = r2.key) => r1.id = r2.id
  /\ \A r \in responses : C18_RowsOf(r.account, r.key) = {r.id}
  /\ \A a \in Accounts, k \in Keys : Cardinality(C18_RowsOf(a, k)) <= 1

(* the first request was answered 202 and a repeat of it 200, with one row *)
C18_Witness ==
  \E r1 \in responses, r2 \in responses :
     /\ r1.account = r2.account /\ r1.key = r2.key
     /\ r1.code = 202 /\ r2.code = 200
     /\ r1.id = r2.id
     /\ Len(emails) = 1

(* C19: the email_usage table changes only by the commit step of a worker  *)
(* to which the provider returned a message id in this attempt, and the    *)
(* change is one new record of that worker's email; so an email with a     *)
(* UsageRecord has been accepted by the provider at least once.            *)
C19_UsageOnlyAfterAcceptance ==
  /\ [](\A e \in Ids : HasUsage(e) => hist[e].accepted >= 1)
  /\ [][email_usage' # email_usage =>
          \E w \in Workers :
             /\ pc[w] = "commit"
             /\ pc'[w] \in {"notify_sent", "catch"}
             /\ job[w] \in Ids
             /\ messageId[w] # 0
             /\ messageId[w] = hist[job[w]].accepted
             /\ Len(email_usage') = Len(email_usage) + 1
             /\ SubSeq(email_usage', 1, Len(email_usage)) = email_usage
             /\ email_usage'[Len(email_usage')].email_id = job[w]]_vars

(* the first UsageRecord of an email, written by the commit that followed  *)
(* the provider's first message id                                         *)
C19_Witness ==
  \E w \in Workers, e \in Ids :
     /\ job[w] = e /\ pc[w] = "notify_sent"
     /\ messageId[w] = 1
     /\ hist[e].accepted = 1
     /\ Len(email_usage) = 1
     /\ email_usage[1].email_id = e
     /\ email_usage[1].created_at = 1

(* C20: a success commit that the store applies for a worker holding the   *)
(* provider's message id m leaves the email sent with provider_message_id  *)
(* m, sent_at set and attempts unchanged, and leaves exactly one           *)
(* UsageRecord of the email, which carries the email's account and the     *)
(* current month.                                                          *)
C20_CommitStep(w, e) ==
  /\ pc[w] = "commit"
  /\ job[w] = e
  /\ \/ pc'[w] = "notify_sent"
     \/ pc'[w] = "catch" /\ <<emails', email_usage'>> # <<emails, email_usage>>

C20_CommitPostcondition ==
  [][\A w \in Workers : \A e \in Ids :
       C20_CommitStep(w, e) =>
          /\ emails'[e].status = "sent"
          /\ emails'[e].provider_message_id = messageId[w]
          /\ emails'[e].sent_at # 0
          /\ emails'[e].attempts = emails[e].attempts
          /\ Cardinality({i \in 1..Len(email_usage') :
                            email_usage'[i].email_id = e}) = 1
          /\ \A i \in 1..Len(email_usage') :
               email_usage'[i].email_id = e =>
                  /\ email_usage'[i].account_id = emails[e].account_id
                  /\ email_usage'[i].month = BillingMonth]_vars

(* the commit of the provider's message id 1 has been applied and          *)
(* acknowledged                                                            *)
C20_Witness ==
  \E w \in Workers, e \in Ids :
     /\ job[w] = e /\ pc[w] = "notify_sent"
     /\ emails[e].status = "sent"
     /\ emails[e].provider_message_id = 1
     /\ emails[e].sent_at # 0
     /\ UsageCount(e) = 1
     /\ email_usage[1].account_id = emails[e].account_id

C22_FailedNotification ==
  [][\A w \in Workers : \A e \in Ids :
       /\ (pc[w] = "catch" /\ job[w] = e /\ pc'[w] \notin {"catch", "idle"}
             /\ emails' # emails) =>
              /\ (emails'[e].status = "failed") <=> (pc'[w] = "notify_failed")
              /\ (emails'[e].status = "retrying") <=> (pc'[w] = "throw")
       /\ (job[w] = e /\ webhook[w].event # "email.failed"
             /\ webhook'[w].event = "email.failed") =>
              /\ pc[w] = "notify_failed"
              /\ hist[e].failures >= 1
              /\ webhook'[w].data.email_id = e
              /\ webhook'[w].data.status = "failed"
              /\ webhook'[w].data.attempts = email[w].attempts + 1
              /\ webhook'[w].data.attempts >= 5
              /\ webhook'[w].data.last_error = err[w]
              /\ emails[e].status = "failed"
              /\ emails[e].attempts = webhook'[w].data.attempts
              /\ emails[e].last_error = webhook'[w].data.last_error
       /\ (pc'[w] = "notify_failed" /\ pc[w] # "notify_failed") =>
              pc[w] = "catch"]_vars

(* the fifth failed attempt has been written and email.failed attempted *)
C22_Witness ==
  \E w \in Workers, e \in Ids :
     /\ job[w] = e
     /\ webhook[w].event = "email.failed"
     /\ webhook[w].data.attempts = 5
     /\ webhook[w].data.last_error = ErrProvider
     /\ emails[e].status = "failed"
     /\ emails[e].attempts = 5

(* C23: notifyWebhook(email.sent) is called only by a worker whose success *)
(* commit was acknowledged, and at every such call, so whenever the        *)
(* endpoint is posted email.sent, the email's stored status is sent, its   *)
(* UsageRecord exists and the payload names the stored provider message.   *)
C23_SentNotificationAfterCommit ==
  [][\A w \in Workers : \A e \in Ids :
       /\ (job[w] = e /\ webhook[w].event # "email.sent"
             /\ webhook'[w].event = "email.sent") =>
              /\ pc[w] = "notify_sent"
              /\ emails[e].status = "sent"
              /\ HasUsage(e)
              /\ webhook'[w].data.email_id = e
              /\ webhook'[w].data.status = "sent"
              /\ webhook'[w].data.provider_message_id = emails[e].provider_message_id
              /\ emails' = emails
              /\ email_usage' = email_usage
       /\ (job[w] = e /\ pc'[w] = "notify_sent" /\ pc[w] # "notify_sent") =>
              /\ pc[w] = "commit"
              /\ emails'[e].status = "sent"
              /\ \E i \in 1..Len(email_usage') : email_usage'[i].email_id = e]_vars

(* the endpoint accepted the first POST of email.sent *)
C23_Witness ==
  \E w \in Workers, e \in Ids :
     /\ job[w] = e
     /\ webhook[w].event = "email.sent"
     /\ webhook[w].lookup = "url"
     /\ webhook[w].posts = <<TRUE>>
     /\ emails[e].status = "sent"
     /\ HasUsage(e)

(* C24: no step lowers an email's attempts counter, and the only step that *)
(* changes it is the failure bookkeeping of a worker that claimed the      *)
(* email and caught an error, which raises it by exactly one.              *)
C24_AttemptsMonotone ==
  [][\A e \in Ids :
       /\ emails'[e].attempts >= emails[e].attempts
       /\ emails'[e].attempts # emails[e].attempts =>
             /\ emails'[e].attempts = emails[e].attempts + 1
             /\ \E w \in Workers :
                   /\ pc[w] = "catch" /\ job[w] = e
                   /\ email[w] # NoEmail
                   /\ err[w] # NULL
                   /\ hist'[e].failures = hist[e].failures + 1]_vars

(* three failed attempts have been counted and the email waits for a fourth *)
C24_Witness ==
  \E e \in Ids :
     /\ emails[e].attempts = 3
     /\ hist[e].failures = 3
     /\ hist[e].claims = 3
     /\ emails[e].status = "retrying"

C26_LedgerAppendOnly ==
  [][/\ Len(email_usage') >= Len(email_usage)
     /\ Len(email_usage') <= Len(email_usage) + 1
     /\ \A i \in 1..Len(email_usage) : email_usage'[i] = email_usage[i]
     /\ email_usage' # email_usage =>
           /\ \E w \in Workers : pc[w] = "commit" /\ pc'[w] # "commit"
           /\ \A i \in 1..Len(email_usage) :
                 email_usage[i].email_id # email_usage'[Len(email_usage')].email_id
     /\ \A w \in Workers :
           (pc[w] = "commit" /\ pc'[w] = "notify_sent"
              /\ \E i \in 1..Len(email_usage) : email_usage[i].email_id = job[w]) =>
                 email_usage' = email_usage]_vars

(* a second commit for the email met the record of the first and left it *)
C26_Witness ==
  \E w \in Workers, e \in Ids :
     /\ job[w] = e /\ pc[w] = "return"
     /\ hist[e].accepted = 2
     /\ Len(email_usage) = 1
     /\ email_usage[1].email_id = e
     /\ email_usage[1].created_at = 1
     /\ emails[e].sent_at = 2

(* C27: no step changes the account_id, idempotency_key or content         *)
(* (recipient, sender, subject, bodies) of an existing email; the claim    *)
(* changes nothing but status, the success commit nothing but status,      *)
(* provider_message_id and sent_at, the failure bookkeeping nothing but    *)
(* status, attempts and last_error; no other step changes a row at all.    *)
C27_RowFrame ==
  [][\A e \in Ids :
       /\ emails'[e].account_id = emails[e].account_id
       /\ emails'[e].idempotency_key = emails[e].idempotency_key
       /\ emails'[e].content = emails[e].content
       /\ emails'[e] # emails[e] =>
            \E w \in Workers :
              /\ job[w] = e
              /\ \/ /\ pc[w] = "claim"
                    /\ emails'[e] = [emails[e] EXCEPT !.status = "processing"]
                 \/ /\ pc[w] = "commit"
                    /\ emails'[e] = [emails[e] EXCEPT
                          !.status = "sent",
                          !.provider_message_id = emails'[e].provider_message_id,
                          !.sent_at = emails'[e].sent_at]
                 \/ /\ pc[w] = "catch"
                    /\ emails'[e] = [emails[e] EXCEPT
                          !.status = emails'[e].status,
                          !.attempts = emails'[e].attempts,
                          !.last_error = emails'[e].last_error]]_vars

(* a row that was claimed twice, failed once and then committed still      *)
(* carries what the gateway inserted                                       *)
C27_Witness ==
  \E e \in Ids :
     /\ emails[e].status = "sent"
     /\ emails[e].attempts = 1
     /\ emails[e].last_error = ErrProvider
     /\ emails[e].provider_message_id = 1
     /\ emails[e].content = RequestContent
     /\ emails[e].account_id \in Accounts
     /\ emails[e].idempotency_key \in Keys

(* C28: a POST /emails/send made while the account's UsageRecord count of  *)
(* the current month has reached its monthly_limit inserts no email row,   *)
(* enqueues no job and is not answered with an email id (it gets 429).     *)
C28_OverLimitRejected ==
  [][\A a \in Accounts :
       getCurrentMonthUsage(a) >= getAccountLimit(a) =>
          /\ Len(emails') = Len(emails)
          /\ Len(queue') = Len(queue)
          /\ \A r \in responses' \ responses : r.account # a]_vars

(* C29: over all job attempts, redeliveries and workers, resend.emails.send *)
(* is called at most 5 times for an email, each call by a worker that has   *)
(* claimed it.                                                              *)
C29_AtMostFiveSends ==
  \A e \in Ids :
     /\ hist[e].sends <= 5
     /\ hist[e].sends <= hist[e].claims
     /\ hist[e].accepted <= hist[e].sends

(* the provider has been called for the fifth time *)
C29_Witness ==
  \E e \in Ids :
     /\ hist[e].sends = 5
     /\ hist[e].claims = 5
     /\ emails[e].attempts = 4

(* the rows of a table that account a owns, with their ids *)
C30_OwnRows(table, a) ==
  {<<i, table[i]>> : i \in {j \in 1..Len(table) : table[j].account_id = a}}

(* C30: the response to a GET /emails/:id of account A carries an email    *)
(* only if A owns the row of that id, is 404 when another account owns it, *)
(* and is the same on every stored table that holds the same rows of A at  *)
(* the same ids, whatever rows the other accounts have in it.              *)
C30_ReadIsolation ==
  reads # NoRead =>
    LET a == reads.account
        id == reads.id IN
    /\ reads.response.code = 200 =>
          /\ id \in 1..Len(emails)
          /\ emails[id].account_id = a
          /\ reads.response.body.id = id
          /\ reads.response.body.status = emails[id].status
    /\ (id \in 1..Len(emails) /\ emails[id].account_id # a) =>
          reads.response.code = 404
    /\ \A t \in StoredTables :
          C30_OwnRows(t, a) = C30_OwnRows(emails, a) =>
             GetEmail(t, a, id) = reads.response

(* account 1 asked for the id of an email of account 2 and got 404, while  *)
(* it owns email 1 itself                                                  *)
C30_Witness ==
  /\ Len(emails) = 2
  /\ emails[1].account_id = 1
  /\ emails[2].account_id = 2
  /\ emails[2].status = "sent"
  /\ reads.account = 1
  /\ reads.id = 2
  /\ reads.response.code = 404

(* C31: of the requests an account's counter counted in one lifetime of    *)
(* its key (60 seconds from the first of them) at most rate_limit go on to *)
(* the route: a request whose INCR returned more than the limit is         *)
(* answered 429 and one that returned at most the limit passes.            *)
C31_WindowLimit ==
  /\ [](\A a \in Accounts : limiter.passed[a] <= LimitOf(a))
  /\ [][\A p \in Handlers :
         (limiter.h[p].pc = "decide" /\ limiter'.h[p].pc = "idle"
            /\ faults' = faults) =>
              /\ limiter.h[p].current > LimitOf(limiter.h[p].account) =>
                    limiter'.h[p].answer = "429"
              /\ limiter.h[p].current <= LimitOf(limiter.h[p].account) =>
                    limiter'.h[p].answer = "pass"]_vars

(* the limit has been used up within the window and a further request was *)
(* answered 429                                                            *)
C31_Witness ==
  \E a \in Accounts, p \in Handlers :
     /\ limiter.passed[a] = LimitOf(a)
     /\ limiter.ttl[a] = RATE_WINDOW_SECONDS
     /\ limiter.h[p].answer = "429"
     /\ limiter.h[p].account = a

(* C32: under fair scheduling, every email whose submission was answered   *)
(* 202 eventually has status sent or failed, unless a provider call of its *)
(* attempt never answers.                                                  *)
C32_EventuallyTerminal ==
  \A e \in 1..MaxEmails :
     (\E r \in responses : r.id = e /\ r.code = 202)
        ~> (\/ e \in Ids /\ emails[e].status \in {"sent", "failed"}
            \/ \E w \in Workers : job[w] = e /\ pc[w] = "awaiting")

(* C33: when the queue has stopped redelivering an email's job (the job    *)
(* completed or failed after its 5 attempts) and no worker is still at     *)
(* work on the email, the email's status is sent or failed.                *)
C33_QueueAndRowAgree ==
  \A e \in Ids :
     (/\ queue[e].state \in {"completed", "failed"}
      /\ \A w \in Workers : job[w] # e) =>
        emails[e].status \in {"sent", "failed"}

(* C34: when a job attempt that claimed an email ends, by returning or by  *)
(* throwing, the email's status is sent, retrying or failed.               *)
C34_AttemptEndsOutOfProcessing ==
  [][\A w \in Workers : \A e \in Ids :
       (/\ job[w] = e
        /\ email[w] # NoEmail
        /\ pc[w] \in {"return", "throw"}
        /\ pc'[w] = "idle"
        /\ faults' = faults) =>
          emails[e].status \in {"sent", "retrying", "failed"}]_vars

(* C35: every email with status pending has its job waiting in the queue   *)
(* or delivered to a worker.                                               *)
C35_PendingHasJob ==
  \A e \in Ids :
     emails[e].status = "pending" =>
        \/ queue[e].state \in {"wait", "active"}
        \/ \E w \in Workers : job[w] = e /\ pc[w] # "idle"

(* C36: every email has 0 <= attempts <= 5; a failed email has attempts 5, *)
(* a retrying email has 1 <= attempts <= 4, a pending email has attempts 0. *)
C36_AttemptsRanges ==
  \A e \in Ids :
     /\ emails[e].attempts >= 0
     /\ emails[e].attempts <= 5
     /\ emails[e].status = "failed" => emails[e].attempts = 5
     /\ emails[e].status = "retrying" =>
           emails[e].attempts >= 1 /\ emails[e].attempts <= 4
     /\ emails[e].status = "pending" => emails[e].attempts = 0

(* an email failed for good after a retrying phase with 4 attempts *)
C36_Witness ==
  \E e \in Ids :
     /\ emails[e].status = "failed"
     /\ emails[e].attempts = 5
     /\ hist[e].failures = 5
     /\ queue[e].state = "failed"
     /\ \A w \in Workers : job[w] # e

(* C37: for every email notifyWebhook is called at most once in total: at  *)
(* most once with email.sent, at most once with email.failed, never both.  *)
C37_AtMostOneEvent ==
  \A e \in Ids : hist[e].sentEvents + hist[e].failedEvents <= 1

(* an email that failed four times and was then sent got its one event *)
C37_Witness ==
  \E e \in Ids :
     /\ hist[e].sentEvents = 1
     /\ hist[e].failedEvents = 0
     /\ hist[e].failures = 4
     /\ emails[e].status = "sent"

(* C38: no more than one job is ever enqueued for an email id, nor for an  *)
(* (account_id, idempotency_key) pair; the submission that is answered     *)
(* with the existing id enqueues nothing and writes nothing.               *)
C38_OneJobPerEmail ==
  /\ [](\A e \in Ids : hist[e].enqueues <= 1)
  /\ [](\A a \in Accounts, k \in Keys :
         Cardinality({e \in Ids : /\ emails[e].account_id = a
                                  /\ emails[e].idempotency_key = k
                                  /\ hist[e].enqueues >= 1}) <= 1)
  /\ [][(\E r \in responses' \ responses : r.code = 200) =>
          /\ queue' = queue
          /\ hist' = hist
          /\ emails' = emails]_vars

(* the job of an email ran to completion and a repeated submission was     *)
(* answered with the email's id                                            *)
C38_Witness ==
  \E e \in Ids :
     /\ hist[e].enqueues = 1
     /\ queue[e].state = "completed"
     /\ \E r \in responses : r.id = e /\ r.code = 200
     /\ \E r \in responses : r.id = e /\ r.code = 202

(* C39: a rate-limit counter that exists has an expiry of at most 60       *)
(* seconds once no request is between its first INCR and the EXPIRE that   *)
(* follows it; so the counter that answers 429 is deleted, and the account *)
(* admitted again, within 60 seconds.                                      *)
C39_CounterExpires ==
  \A a \in Accounts :
     (/\ limiter.count[a] > 0
      /\ \A p \in Handlers :
           ~(limiter.h[p].pc = "expire" /\ limiter.h[p].account = a)) =>
        limiter.ttl[a] \in 1..RATE_WINDOW_SECONDS

====
